---- MODULE Spec2Model ----
(***************************************************************************)
(* Model of src/prediction.py: one invocation of the script is a run that  *)
(* goes through its numbered steps (Step 1 .. Step 8); the two files the    *)
(* script writes (forecast_file, error_log_file) persist from one run to    *)
(* the next.  Timestamps are whole hours (integers).  Values that pandas    *)
(* keeps as floats are kept exact: integers for yhat / Actual / Error, and  *)
(* normalised fractions [num, den] for everything that is divided.          *)
(* Prophet is an external library: fit is modelled by its guard (at least   *)
(* two rows), make_future_dataframe by the dates it builds, predict by a    *)
(* nondeterministic yhat per future row.                                    *)
(***************************************************************************)
EXTENDS Integers, Sequences, FiniteSets, TLC

\* ---------------------------------------------------------------- bounds
MaxRuns == 2          \* invocations of the script in one behaviour
MaxFiles == 2         \* Excel files listed in data_folder
MaxRows == 2          \* rows of one historical Excel file
MaxTs == 3            \* historical timestamps are drawn from 1..MaxTs
MaxActualRows == 2    \* rows of actual_energy.xlsx
\* HOURS_PER_DAY is a configurable parameter of the script (24 as shipped);
\* the model runs the script with a short day so that the horizon stays small.
HOURS_PER_DAY == 2

\* ------------------------------------------------------- program constants
NUM_DAYS == 1
ROLLING_WINDOW == 24
MIN_FIT_ROWS == 2

YVals == {7}              \* Energy readings (never inspected by the script)
YhatVals == {100, 300}     \* values Prophet may predict
ActualVals == {0, 80}\* values of the Actual column

\* A file on disk: exists is os.path.exists(...), rows its records.
NoFile == [exists |-> FALSE, rows |-> <<>>]
FileOf(rows) == [exists |-> TRUE, rows |-> rows]

\* ------------------------------------------------------------- arithmetic
Abs(x) == IF x < 0 THEN -x ELSE x

RECURSIVE GCD(_, _)
GCD(a, b) == IF b = 0 THEN a ELSE GCD(b, a % b)

\* The fraction n/d (d # 0) in lowest terms with a positive denominator.
Rat(n, d) ==
    LET s == IF d < 0 THEN -1 ELSE 1
        g == GCD(Abs(n), Abs(d))
    IN [num |-> (s * n) \div g, den |-> (s * d) \div g]

RatAdd(p, q) == Rat(p.num * q.den + q.num * p.den, p.den * q.den)
RatSub(p, q) == Rat(p.num * q.den - q.num * p.den, p.den * q.den)
RatLE(p, q) == p.num * q.den <= q.num * p.den

RECURSIVE SumInts(_)
SumInts(s) == IF s = <<>> THEN 0 ELSE Head(s) + SumInts(Tail(s))

RECURSIVE SumRats(_)
SumRats(s) == IF s = <<>> THEN Rat(0, 1) ELSE RatAdd(Head(s), SumRats(Tail(s)))

\* ----------------------------------------------------- sequences / frames
SeqsUpTo(S, n) == UNION {[1..k -> S] : k \in 0..n}

RECURSIVE ConcatAll(_)
\* pd.concat of a list of frames
ConcatAll(frames) ==
    IF frames = <<>> THEN <<>> ELSE Head(frames) \o ConcatAll(Tail(frames))

DsOf(df) == {df[i].ds : i \in 1..Len(df)}

MaxOf(S) == CHOOSE m \in S : \A x \in S : x <= m
MinOf(S) == CHOOSE m \in S : \A x \in S : m <= x

RECURSIVE SeqOfSet(_)
\* the elements of a finite set of integers, ascending
SeqOfSet(S) == IF S = {} THEN <<>> ELSE <<MinOf(S)>> \o SeqOfSet(S \ {MinOf(S)})

RECURSIVE PermsOf(_)
\* every order of the elements of a finite set
PermsOf(S) ==
    IF S = {} THEN {<<>>}
    ELSE UNION {{<<x>> \o p : p \in PermsOf(S \ {x})} : x \in S}

RECURSIVE OrdersFrom(_, _)
\* the rows of df whose ds is in dsLeft, ascending by ds, in every order of the
\* rows that share a ds
OrdersFrom(df, dsLeft) ==
    IF dsLeft = {} THEN {<<>>}
    ELSE LET d == MinOf(dsLeft)
             tied == {i \in 1..Len(df) : df[i].ds = d}
         IN {[k \in 1..Len(p) |-> df[p[k]]] \o rest :
                p \in PermsOf(tied), rest \in OrdersFrom(df, dsLeft \ {d})}

\* DataFrame.sort_values('ds'): ascending by ds.  The default kind is quicksort,
\* which is not stable, so rows with equal ds may come out in any order: the
\* set of frames the call may return.
SortByDs(df) == OrdersFrom(df, DsOf(df))

IsSortedByDs(df) == \A i \in 1..Len(df) - 1 : df[i].ds <= df[i + 1].ds
UniqueDs(df) == \A i, j \in 1..Len(df) : df[i].ds = df[j].ds => i = j

\* ------------------------------------------------------------------ state
VARIABLES
    pc,              \* the step the running invocation is about to execute
    run,             \* number of the invocation (1..MaxRuns)
    excel_files,     \* one flag per listed Excel file: TRUE iff pd.read_excel succeeds
    combined_df,     \* rows [ds, y] after Step 1, [ds, y, rolling_error] after Step 2
    fitted,          \* model.fit has returned
    forecast,        \* rows [ds, rolling_error, yhat] of model.predict(future)
    actual_df,       \* rows [ds, Actual]
    merged,          \* rows of the frame `merged`
    accuracy,        \* 100 - mape (a fraction; den = 0 stands for NaN / not computed)
    forecast_file,   \* next_day_forecast.csv
    error_log_file   \* forecast_error_log.csv (rows in file order; the Date and Hour
                     \* columns are functions of ds and are left out)

vars == <<pc, run, excel_files, combined_df, fitted, forecast, actual_df, merged,
          accuracy, forecast_file, error_log_file>>

NaNRat == [num |-> 0, den |-> 0]

\* ------------------------------------------------ Step 1: load and combine
Reading == [ds : 1..MaxTs, y : YVals]
\* what pd.read_excel does with one listed file: raise, or return its rows
ExcelContents ==
    {[ok |-> FALSE, rows |-> <<>>]} \cup {[ok |-> TRUE, rows |-> r] : r \in SeqsUpTo(Reading, MaxRows)}

\* variant of ReadAll: a file that fails to read still contributes an (empty) frame
ReadAllKeepFailed(files) == [i \in 1..Len(files) |-> files[i].rows]

RECURSIVE ReadAll(_)
\* the loop of lines 25-35: frames of the files that read, in listing order
ReadAll(files) ==
    IF files = <<>> THEN <<>>
    ELSE IF Head(files).ok THEN <<Head(files).rows>> \o ReadAll(Tail(files))
         ELSE ReadAll(Tail(files))

\* line 37: the frames pd.concat(all_data).sort_values('ds') may return
Combine(all_data) == SortByDs(ConcatAll(all_data))

\* ------------------------------------------- Step 2: rolling error regressor
\* Series.rolling(window=24, min_periods=1).mean() at position i of the Error column
RollingMeanAt(errors, i) ==
    LET lo == IF i - ROLLING_WINDOW + 1 < 1 THEN 1 ELSE i - ROLLING_WINDOW + 1
        w == SubSeq(errors, lo, i)
    IN Rat(SumInts(w), Len(w))

\* lines 43-44 on the sorted log: reduced to [ds, rolling_error]
RollingOf(sorted) ==
    LET errors == [i \in 1..Len(sorted) |-> sorted[i].Error]
    IN [i \in 1..Len(sorted) |->
            [ds |-> sorted[i].ds, rolling_error |-> RollingMeanAt(errors, i)]]

\* lines 42-44: one frame per order sort_values may give the log
RollingErrorFrame(log) == {RollingOf(sorted) : sorted \in SortByDs(log)}

RECURSIVE MatchesOf(_, _)
\* the rows of `right` whose ds is `ds`, in order
MatchesOf(ds, right) ==
    IF right = <<>> THEN <<>>
    ELSE IF Head(right).ds = ds THEN <<Head(right)>> \o MatchesOf(ds, Tail(right))
         ELSE MatchesOf(ds, Tail(right))

\* one row of pd.merge(combined_df, error_df, on='ds', how='left') followed by
\* fillna(0): a row per matching error row, or one row with 0 when none matches
LeftRows(row, error_df) ==
    LET m == MatchesOf(row.ds, error_df)
    IN IF m = <<>>
       THEN <<[ds |-> row.ds, y |-> row.y, rolling_error |-> Rat(0, 1)]>>
       ELSE [k \in 1..Len(m) |->
                [ds |-> row.ds, y |-> row.y, rolling_error |-> m[k].rolling_error]]

RECURSIVE LeftMergeFill(_, _)
LeftMergeFill(df, error_df) ==
    IF df = <<>> THEN <<>>
    ELSE LeftRows(Head(df), error_df) \o LeftMergeFill(Tail(df), error_df)

\* lines 40-49: the frames Step 2 may leave in combined_df
AddRollingError(df, log_file) ==
    IF log_file.exists
    THEN {LeftMergeFill(df, error_df) : error_df \in RollingErrorFrame(log_file.rows)}
    ELSE {[i \in 1..Len(df) |-> [ds |-> df[i].ds, y |-> df[i].y, rolling_error |-> Rat(0, 1)]]}

\* ------------------------------------------------------- Step 4: predict
total_hours == NUM_DAYS * HOURS_PER_DAY

\* Prophet.make_future_dataframe(periods, freq='H'): the distinct history dates,
\* ascending, followed by `periods` hourly dates after the last one
MakeFutureDataframe(df, periods) ==
    LET last_date == MaxOf(DsOf(df))
    IN SeqOfSet(DsOf(df)) \o [i \in 1..periods |-> last_date + i]

\* variant of AfterLast: the comparison is >= instead of >
AfterLastInclusive(dates, last_timestamp) == SelectSeq(dates, LAMBDA d : d >= last_timestamp)

\* line 65: future[future['ds'] > last_timestamp]
AfterLast(dates, last_timestamp) == SelectSeq(dates, LAMBDA d : d > last_timestamp)

\* line 68: combined_df['rolling_error'].iloc[-1]
LastKnownError(df) == df[Len(df)].rolling_error

\* lines 69-71: the regressor column is the constant last_known_error; yhat is
\* whatever the fitted model predicts for each future row
Predict(future, last_known_error, yhat) ==
    [i \in 1..Len(future) |->
        [ds |-> future[i], rolling_error |-> last_known_error, yhat |-> yhat[i]]]

\* line 75: the columns of the forecast that are saved (yhat_lower and yhat_upper
\* come from Prophet alone and are read by nothing in the script; they are left out)
SavedForecast(fc) == [i \in 1..Len(fc) |-> [ds |-> fc[i].ds, yhat |-> fc[i].yhat]]

\* -------------------------------------------------- Step 7: merge and errors
RECURSIVE InnerMerge(_, _)
\* pd.merge(forecast[['ds','yhat']], actual_df, on='ds', how='inner'): left order,
\* one row per matching actual row
InnerMerge(fc, actual) ==
    IF fc = <<>> THEN <<>>
    ELSE LET m == MatchesOf(Head(fc).ds, actual)
         IN [k \in 1..Len(m) |->
                [ds |-> Head(fc).ds, yhat |-> Head(fc).yhat, Actual |-> m[k].Actual]]
            \o InnerMerge(Tail(fc), actual)

\* merged['Actual'].replace(0, 1)
Denominator(actual) == IF actual = 0 THEN 1 ELSE actual

\* variant of APEOf: the ratio is not scaled to a percentage
APEOfUnscaled(absolute_error, actual) == Rat(absolute_error, Denominator(actual))

\* line 95
APEOf(absolute_error, actual) == Rat(absolute_error * 100, Denominator(actual))

\* lines 93-95 for one row
ErrorRecord(row) ==
    LET err == row.yhat - row.Actual
    IN [ds |-> row.ds, yhat |-> row.yhat, Actual |-> row.Actual, Error |-> err,
        Absolute_Error |-> Abs(err), APE |-> APEOf(Abs(err), row.Actual)]

WithErrors(m) == [i \in 1..Len(m) |-> ErrorRecord(m[i])]

\* variant of Accuracy: the mean is subtracted from 1 instead of 100
AccuracyFromOne(m) ==
    IF m = <<>> THEN NaNRat
    ELSE LET total == SumRats([i \in 1..Len(m) |-> m[i].APE])
             mape == Rat(total.num, total.den * Len(m))
         IN RatSub(Rat(1, 1), mape)

\* lines 97-98: 100 - merged['APE'].mean(); the mean of no rows is NaN
Accuracy(m) ==
    IF m = <<>> THEN NaNRat
    ELSE LET total == SumRats([i \in 1..Len(m) |-> m[i].APE])
             mape == Rat(total.num, total.den * Len(m))
         IN RatSub(Rat(100, 1), mape)

\* DataFrame.drop_duplicates(subset=['ds']): keep='first'
DropDuplicates(df) ==
    LET keep(i) == \A j \in 1..(i - 1) : df[j].ds # df[i].ds
        idx == SeqOfSet({i \in 1..Len(df) : keep(i)})
    IN [k \in 1..Len(idx) |-> df[idx[k]]]

\* lines 108-112
CombinedLog(log_file, log_df) ==
    IF log_file.exists THEN DropDuplicates(log_file.rows \o log_df) ELSE log_df

\* ---------------------------------------------------------------- actions
Init ==
    /\ pc = "step1"
    /\ run = 1
    /\ excel_files = <<>>
    /\ combined_df = <<>>
    /\ fitted = FALSE
    /\ forecast = <<>>
    /\ actual_df = <<>>
    /\ merged = <<>>
    /\ accuracy = NaNRat
    /\ forecast_file = NoFile
    /\ error_log_file = NoFile

\* Step 1 (lines 19-37).  No listed file: FileNotFoundError.  No file read:
\* pd.concat([]) raises ValueError.  Both end the process.
Step1 ==
    /\ pc = "step1"
    /\ \E files \in SeqsUpTo(ExcelContents, MaxFiles) :
          LET all_data == ReadAll(files) IN
          /\ excel_files' = [i \in 1..Len(files) |-> files[i].ok]
          /\ IF files = <<>>
             THEN pc' = "no_files" /\ combined_df' = <<>>
             ELSE IF all_data = <<>>
             THEN pc' = "no_data" /\ combined_df' = <<>>
             ELSE pc' = "step2" /\ combined_df' \in Combine(all_data)
    /\ UNCHANGED <<run, fitted, forecast, actual_df, merged, accuracy, forecast_file,
                   error_log_file>>

\* Step 2 (lines 39-49)
Step2 ==
    /\ pc = "step2"
    /\ combined_df' \in AddRollingError(combined_df, error_log_file)
    /\ pc' = "step3"
    /\ UNCHANGED <<run, excel_files, fitted, forecast, actual_df, merged, accuracy,
                   forecast_file, error_log_file>>

\* Step 3 (lines 51-58).  Prophet.fit raises ValueError on fewer than two rows.
Step3 ==
    /\ pc = "step3"
    /\ IF Len(combined_df) < MIN_FIT_ROWS
       THEN pc' = "fit_failed" /\ fitted' = FALSE
       ELSE pc' = "step4" /\ fitted' = TRUE
    /\ UNCHANGED <<run, excel_files, combined_df, forecast, actual_df, merged, accuracy,
                   forecast_file, error_log_file>>

\* Step 4 (lines 60-71)
Step4 ==
    /\ pc = "step4"
    /\ LET last_timestamp == MaxOf(DsOf(combined_df))
           future == AfterLast(MakeFutureDataframe(combined_df, total_hours), last_timestamp)
           last_known_error == LastKnownError(combined_df)
       IN \E yhat \in [1..Len(future) -> YhatVals] :
             forecast' = Predict(future, last_known_error, yhat)
    /\ pc' = "step5"
    /\ UNCHANGED <<run, excel_files, combined_df, fitted, actual_df, merged, accuracy,
                   forecast_file, error_log_file>>

\* Step 5 (lines 73-76): the forecast CSV is overwritten
Step5 ==
    /\ pc = "step5"
    /\ forecast_file' = FileOf(SavedForecast(forecast))
    /\ pc' = "step6"
    /\ UNCHANGED <<run, excel_files, combined_df, fitted, forecast, actual_df, merged,
                   accuracy, error_log_file>>

\* Step 6 (lines 78-86): actual_energy.xlsx is absent (empty frame) or read
ActualRow == [ds : 2..(MaxTs + total_hours), Actual : ActualVals]
Step6 ==
    /\ pc = "step6"
    /\ \E file \in {NoFile} \cup {FileOf(r) : r \in SeqsUpTo(ActualRow, MaxActualRows)} :
          actual_df' = file.rows
    /\ pc' = "step7"
    /\ UNCHANGED <<run, excel_files, combined_df, fitted, forecast, merged, accuracy,
                   forecast_file, error_log_file>>

\* Step 7 and 7.5 (lines 88-119)
Step7 ==
    /\ pc = "step7"
    /\ IF actual_df # <<>>
       THEN LET m == WithErrors(InnerMerge(forecast, actual_df)) IN
            /\ merged' = m
            /\ accuracy' = Accuracy(m)
            /\ error_log_file' = FileOf(CombinedLog(error_log_file, m))
       ELSE /\ merged' = SavedForecast(forecast)
            /\ UNCHANGED <<accuracy, error_log_file>>
    /\ pc' = "step8"
    /\ UNCHANGED <<run, excel_files, combined_df, fitted, forecast, actual_df, forecast_file>>

\* Step 8 (lines 121-142): plotting changes no state; the process ends
Step8 ==
    /\ pc = "step8"
    /\ pc' = "done"
    /\ UNCHANGED <<run, excel_files, combined_df, fitted, forecast, actual_df, merged,
                   accuracy, forecast_file, error_log_file>>

Ended == pc \in {"done", "no_files", "no_data", "fit_failed"}

\* the script is invoked again: only the two files survive
NextRun ==
    /\ Ended
    /\ run < MaxRuns
    /\ run' = run + 1
    /\ pc' = "step1"
    /\ excel_files' = <<>>
    /\ combined_df' = <<>>
    /\ fitted' = FALSE
    /\ forecast' = <<>>
    /\ actual_df' = <<>>
    /\ merged' = <<>>
    /\ accuracy' = NaNRat
    /\ UNCHANGED <<forecast_file, error_log_file>>

Next == Step1 \/ Step2 \/ Step3 \/ Step4 \/ Step5 \/ Step6 \/ Step7 \/ Step8 \/ NextRun

Spec == Init /\ [][Next]_vars

\* The evaluation of Steps 7-8 on its own: a first run (no error log yet) that has
\* reached Step 7 with a two-hour history ending at `last`, any forecast values and
\* any actuals.
InitEval ==
    /\ pc = "step7"
    /\ run = 1
    /\ excel_files = <<TRUE>>
    /\ fitted = TRUE
    /\ merged = <<>>
    /\ accuracy = NaNRat
    /\ error_log_file = NoFile
    /\ \E last \in 2..MaxTs :
          /\ \E y \in YVals :
                \E df \in Combine(<<(<<[ds |-> last - 1, y |-> y], [ds |-> last, y |-> y]>>)>>) :
                   combined_df \in AddRollingError(df, NoFile)
          /\ \E yhat \in [1..total_hours -> YhatVals] :
                forecast = Predict(
                    AfterLast(MakeFutureDataframe(combined_df, total_hours), last),
                    LastKnownError(combined_df), yhat)
    /\ forecast_file = FileOf(SavedForecast(forecast))
    /\ actual_df \in {NoFile.rows} \cup SeqsUpTo(ActualRow, MaxActualRows)

NextEval == Step7 \/ Step8

SpecEval == InitEval /\ [][NextEval]_vars

\* ------------------------------------------------------------------ claims
LogRows == error_log_file.rows
Evaluated == pc = "step8" /\ actual_df # <<>>
Step7Taken == pc = "step7" /\ pc' = "step8"

\* C1: when a run evaluates a timestamp the store already holds, the stored record
\* for that timestamp carries the newly computed predicted value and error once
\* Step 7.5 has written the log (last-write-wins).
C1_LastWriteWins ==
    [][(Step7Taken /\ actual_df # <<>> /\ UniqueDs(merged') /\ UniqueDs(LogRows))
         => \A i \in 1..Len(merged') : \A k \in 1..Len(LogRows') :
               (merged'[i].ds \in DsOf(LogRows) /\ LogRows'[k].ds = merged'[i].ds)
                  => (LogRows'[k].yhat = merged'[i].yhat
                      /\ LogRows'[k].Error = merged'[i].Error)]_vars

\* the rolling signal as the claim defines it: the mean error of the (up to 24)
\* chronologically latest records at or before t, 0 when there is none
SignalAtOrBefore(log, t) ==
    LET sorted == CHOOSE f \in SortByDs(log) : TRUE
        upto == SelectSeq(sorted, LAMBDA r : r.ds <= t)
        n == Len(upto)
        lo == IF n - ROLLING_WINDOW + 1 < 1 THEN 1 ELSE n - ROLLING_WINDOW + 1
        w == SubSeq(upto, lo, n)
    IN IF n = 0 THEN Rat(0, 1)
       ELSE Rat(SumInts([i \in 1..Len(w) |-> w[i].Error]), Len(w))

\* C2: the rolling error signal attached to every historical timestamp t is the
\* mean error of the up to 24 latest records at or before t, also when no record
\* lies exactly at t.
C2_RollingSignalAtOrBefore ==
    (pc = "step3" /\ UniqueDs(LogRows))
       => \A i \in 1..Len(combined_df) :
             combined_df[i].rolling_error = SignalAtOrBefore(LogRows, combined_df[i].ds)

\* C3 (as claimed): an evaluated row with predicted = 100 and actual = 0 has
\* absolute_percentage_error 100.
C3_ZeroActualIs100 ==
    Evaluated => \A i \in 1..Len(merged) :
                    (merged[i].yhat = 100 /\ merged[i].Actual = 0)
                       => merged[i].APE = [num |-> 100, den |-> 1]

\* C3 (amended): when the actual is exactly 0 the denominator is 1, so the
\* absolute_percentage_error is 100 times the absolute error: 10000 for
\* predicted = 100, actual = 0.
C3_ZeroActualDenominatorOne ==
    Evaluated => \A i \in 1..Len(merged) :
                    merged[i].Actual = 0
                       => /\ merged[i].APE = [num |-> 100 * merged[i].Absolute_Error, den |-> 1]
                          /\ merged[i].yhat = 100 => merged[i].APE = [num |-> 10000, den |-> 1]

C3_Witness ==
    Evaluated /\ \E i \in 1..Len(merged) : merged[i].yhat = 100 /\ merged[i].Actual = 0

\* the run at Step 7 produces no ErrorRecord
NoErrorRecords == actual_df = <<>> \/ InnerMerge(forecast, actual_df) = <<>>

\* C4: a run that produces no ErrorRecords leaves the records of the store as
\* they were.
C4_NoRecordsNoChange ==
    [][(Step7Taken /\ NoErrorRecords) => LogRows' = LogRows]_vars

\* C5: the persisted store holds at most one ErrorRecord per timestamp.
C5_StoreUniquePerTimestamp == UniqueDs(LogRows)

\* C6: the series used for training is sorted ascending by timestamp and holds
\* at most one reading per timestamp.
C6_CanonicalSeries ==
    pc = "step3" => (IsSortedByDs(combined_df) /\ UniqueDs(combined_df))

\* C7: the forecast has exactly NUM_DAYS * HOURS_PER_DAY points, at the consecutive
\* hours after the last historical timestamp, each carrying the rolling signal of
\* the last row of the training series.
C7_ForecastHorizon ==
    pc = "step5" =>
       LET last == MaxOf(DsOf(combined_df)) IN
       /\ Len(forecast) = NUM_DAYS * HOURS_PER_DAY
       /\ \A i \in 1..Len(forecast) :
             /\ forecast[i].ds = last + i
             /\ forecast[i].ds > last
             /\ forecast[i].rolling_error = combined_df[Len(combined_df)].rolling_error

C7_Witness ==
    /\ pc = "step5"
    /\ Len(forecast) >= 2
    /\ forecast[1].rolling_error # Rat(0, 1)
    /\ Len(combined_df) >= 2
    /\ combined_df[1].rolling_error # combined_df[Len(combined_df)].rolling_error

InPercentRange(a) == a.den > 0 /\ RatLE(Rat(0, 1), a) /\ RatLE(a, Rat(100, 1))

\* C8 (as claimed): with a non-empty evaluated subset and no actual equal to 0 the
\* aggregate accuracy lies in [0, 100].
C8_AccuracyInRange ==
    (Evaluated /\ merged # <<>> /\ \A i \in 1..Len(merged) : merged[i].Actual # 0)
       => InPercentRange(accuracy)

\* C8 (amended): with a non-empty evaluated subset in which every actual is
\* positive and every absolute error is at most the actual, the aggregate accuracy
\* lies in [0, 100].
C8_AccuracyInRangeBoundedError ==
    (Evaluated /\ merged # <<>>
       /\ \A i \in 1..Len(merged) :
             merged[i].Actual > 0 /\ merged[i].Absolute_Error <= merged[i].Actual)
       => InPercentRange(accuracy)

C8_Witness ==
    /\ Evaluated
    /\ Len(merged) >= 2
    /\ \A i \in 1..Len(merged) :
          merged[i].Actual > 0 /\ merged[i].Absolute_Error <= merged[i].Actual
    /\ \E i \in 1..Len(merged) : merged[i].Absolute_Error > 0
    /\ accuracy = Rat(75, 1)

NoSourceRead == \A i \in 1..Len(excel_files) : ~excel_files[i]
Aborted == pc \in {"no_files", "no_data"}

\* C9: when no source yields a frame (no file listed, or every read fails) the run
\* ends in Step 1: nothing is fitted, neither file is written; when at least one
\* file reads, the run goes on to Step 2 and training with the frames that read.
C9_AbortWithoutSources ==
    [][/\ pc = "step1" =>
            /\ NoSourceRead' => (Aborted' /\ ~fitted')
            /\ ~NoSourceRead' => pc' = "step2"
            /\ forecast_file' = forecast_file /\ error_log_file' = error_log_file
       /\ Aborted =>
            /\ ~fitted'
            /\ forecast_file' = forecast_file /\ error_log_file' = error_log_file
       /\ fitted' => ~NoSourceRead']_vars

C9_Witness ==
    /\ pc = "no_data"
    /\ Len(excel_files) = MaxFiles
    /\ LogRows # <<>>
    /\ forecast_file.exists

\* C10: the persisted error log is ordered ascending by timestamp.
C10_StoreSorted == IsSortedByDs(LogRows)

====
